---- MODULE Spec2Model ----
(***************************************************************************)
(* Pose-estimation post-processing of isidrok/computer-vision-web.         *)
(*                                                                         *)
(* Two programs of the repository are modelled:                            *)
(*   - the single-image pipeline (processImageWithLetterboxing ->          *)
(*     model.predict -> getBestPrediction -> scalePrediction ->            *)
(*     renderPrediction), specification Spec;                              *)
(*   - the live-video page (toggle button, camera, animation-frame loop),  *)
(*     in its two variants (src/index.ts and the cancelAnimationFrame      *)
(*     page of vite.config.ts lines 19-206), specification LiveSpec.       *)
(*                                                                         *)
(* JavaScript numbers are modelled as exact rationals [num, den]; the      *)
(* rounding of IEEE-754 doubles is not modelled.  The element-wise tensor  *)
(* arithmetic of the selectors (sub, add, div on float32 tensors) rounds   *)
(* each result to the nearest float32, ties to even (fround); exponent     *)
(* overflow and subnormals are outside the inputs used.                    *)
(***************************************************************************)
EXTENDS Integers, Sequences, FiniteSets, TLC

(* ------------------------------ bounds -------------------------------- *)
\* Source images have width, height in 1..MaxDim (plus the named examples).
MaxDim == 4
\* Anchors of the raw output tensor (8400 in the exported network).
NumAnchors == 3
\* Keypoints per anchor (17 in the exported network).
NumKeypoints == 2
\* Toggle clicks and processed frames of one live-video run.
MaxClicks == 3
MaxFrames == 3

(* ----------------------------- rationals ------------------------------ *)
RECURSIVE GCD(_, _)
GCD(a, b) == IF b = 0 THEN a ELSE GCD(b, a % b)

Abs(n) == IF n < 0 THEN -n ELSE n

\* n/d in lowest terms with a positive denominator (d # 0).
Rat(n, d) ==
  LET s == IF d < 0 THEN -1 ELSE 1
      g == GCD(Abs(n), Abs(d))
  IN  [num |-> (s * n) \div g, den |-> (s * d) \div g]

FromInt(n) == [num |-> n, den |-> 1]
RatAdd(a, b) == Rat(a.num * b.den + b.num * a.den, a.den * b.den)
RatSub(a, b) == Rat(a.num * b.den - b.num * a.den, a.den * b.den)
RatMul(a, b) == Rat(a.num * b.num, a.den * b.den)
RatDiv(a, b) == Rat(a.num * b.den, a.den * b.num)
RatLT(a, b) == a.num * b.den < b.num * a.den
RatLE(a, b) == a.num * b.den <= b.num * a.den
\* Math.floor
Floor(a) == a.num \div a.den
\* Math.max / Math.min of two numbers
RatMax(a, b) == IF RatLT(a, b) THEN b ELSE a
RatMin(a, b) == IF RatLT(b, a) THEN b ELSE a
\* Mutant of Max: the first argument, whatever the second is.
MaxFirst(a, b) == a

Max(a, b) == IF a >= b THEN a ELSE b

Zero == FromInt(0)
Two == FromInt(2)
Half == Rat(1, 2)

(* ------------------------------ float32 ------------------------------ *)
RECURSIVE TwoTo(_)
TwoTo(k) == IF k = 0 THEN 1 ELSE 2 * TwoTo(k - 1)

\* A float32 significand holds 24 bits: integers below 2^24.
SignificandLimit == TwoTo(24)

\* q >= 0 rounded to the nearest integer, ties to the even one
roundHalfEven(q) ==
  LET f == q.num \div q.den
      r == q.num - f * q.den
  IN  IF 2 * r < q.den THEN f
      ELSE IF 2 * r > q.den THEN f + 1
      ELSE IF f % 2 = 0 THEN f ELSE f + 1

\* the least k >= from with a / 2^k < 2^24 (a > 0)
RECURSIVE downShift(_, _)
downShift(a, from) ==
  IF a.num \div (a.den * TwoTo(from)) < SignificandLimit THEN from
  ELSE downShift(a, from + 1)

\* the greatest k >= from with a * 2^k < 2^24 (0 < a < 2^24)
RECURSIVE upShift(_, _)
upShift(a, from) ==
  IF (a.num * TwoTo(from + 1)) \div a.den < SignificandLimit
  THEN upShift(a, from + 1)
  ELSE from

\* Mutant of fround: no rounding, the exact value is stored.
froundExact(v) == v

\* The value a Float32Array stores for v (Math.fround): v rounded to 24
\* significant bits, round-to-nearest, ties-to-even.
fround(v) ==
  IF v.num = 0 THEN v
  ELSE LET s == IF v.num < 0 THEN -1 ELSE 1
           a == Rat(Abs(v.num), v.den)
           down == downShift(a, 0)
       IN  IF down > 0
           THEN FromInt(s * roundHalfEven(Rat(a.num, a.den * TwoTo(down)))
                          * TwoTo(down))
           ELSE LET up == upShift(a, 0)
                IN  Rat(s * roundHalfEven(Rat(a.num * TwoTo(up), a.den)),
                        TwoTo(up))

\* tf.sub, tf.add, tf.div on float32 tensors, one element
tfSub(a, b) == fround(RatSub(a, b))
tfAdd(a, b) == fround(RatAdd(a, b))
tfDiv(a, b) == fround(RatDiv(a, b))

(* ------------------------------- state -------------------------------- *)
VARIABLES
  \* single-image pipeline
  pc,                \* stage of main()
  source,            \* the <img>/<video> element: [width, height]
  modelShape,        \* model.inputs[0].shape.slice(1, 3) = <<height, width>>
  processed,         \* ProcessedImageResult
  predictions,       \* raw output tensor [channel][anchor]
  bestPrediction,    \* Prediction in model space
  scaledPrediction,  \* Prediction in source space
  canvas,            \* [width, height, ops]: the draw surface; ops logs the
                     \* calls made on it by the task that ran last
  \* live-video page
  variant,           \* "index" (src/index.ts) or "cancel" (vite.config.ts 19-206)
  running,           \* let running (index.ts:425)
  label,             \* toggle.textContent
  srcObject,         \* video.srcObject: 0 = null, else the stream's id
  liveStreams,       \* streams whose tracks have not been stopped
  readyState,        \* video.readyState: 0 nothing, 1 metadata, 2 current data
  clicks,            \* toggle clicks handled so far
  gumPending,        \* click handlers suspended in await getUserMedia
  waiters,           \* click handlers suspended on the media event, in order
  rafQueue,          \* ids of the pending animation-frame callbacks
  rafCounter,        \* last id requestAnimationFrame returned
  requestAnimationFrameId, \* let requestAnimationFrameId (vite.config.ts:189)
  frames,            \* frames processed so far
  numTensors,        \* tf.memory().numTensors
  frameAllocs        \* tensors the last frame allocated inside its tidy scope

pipeVars == <<pc, source, modelShape, processed, predictions, bestPrediction,
              scaledPrediction>>
liveVars == <<variant, running, label, srcObject, liveStreams, readyState,
              clicks, gumPending, waiters, rafQueue, rafCounter,
              requestAnimationFrameId, frames, numTensors, frameAllocs>>
\* liveVars without the tensor count
loopVars == <<variant, running, label, srcObject, liveStreams, readyState,
              clicks, gumPending, waiters, rafQueue, rafCounter,
              requestAnimationFrameId, frames, frameAllocs>>
vars == <<pipeVars, canvas, liveVars>>

(* ------------------------- letterbox transform ------------------------ *)
\* Mutant of paddingBefore: all the padding goes before the image.
paddingBeforeAll(totalPadding) == totalPadding

\* Mutant of paddingBefore: the odd pixel goes before the image.
paddingBeforeCeil(totalPadding) == Floor(Rat(totalPadding + 1, 2))

\* Math.floor(totalPadding / 2): the padding put before the image.
paddingBefore(totalPadding) == Floor(Rat(totalPadding, 2))

\* Mutant of paddingAfter: the same floor on both sides.
paddingAfterFloor(totalPadding, before) == Floor(Rat(totalPadding, 2))

\* The padding put after the image: the remainder.
paddingAfter(totalPadding, before) == totalPadding - before

\* Mutant of scaleOf: the scale taken from the model height.
scaleOfHeight(targetSquareSize, modelHeight, modelWidth) ==
  Rat(targetSquareSize, modelHeight)

\* Mutant of scaleOf: the quotient inverted.
scaleOfInverse(targetSquareSize, modelHeight, modelWidth) ==
  Rat(modelWidth, targetSquareSize)

\* const scale = targetSquareSize / modelWidth
scaleOf(targetSquareSize, modelHeight, modelWidth) ==
  Rat(targetSquareSize, modelWidth)

\* Tensors the preprocessing allocates, in order.
LetterboxAllocs ==
  <<"fromPixels", "toFloat", "div", "pad", "resizeBilinear", "expandDims">>

\* dispose([originalImageTensor, letterboxedImage, resizedImage]) of the
\* explicit-dispose page: originalImageTensor is the result of the chain
\* fromPixels(image).toFloat().div(255), that is the div tensor.
LetterboxDisposed == <<"div", "pad", "resizeBilinear">>

\* dispose(tensors): each listed tensor is released
dispose(before, tensors) == before - Len(tensors)

processImageWithLetterboxing(src, shape) ==
  LET modelHeight == shape[1]
      modelWidth == shape[2]
      originalWidth == src.width
      originalHeight == src.height
      targetSquareSize == Max(originalWidth, originalHeight)
      totalWidthPadding == targetSquareSize - originalWidth
      totalHeightPadding == targetSquareSize - originalHeight
      leftPadding == paddingBefore(totalWidthPadding)
      rightPadding == paddingAfter(totalWidthPadding, leftPadding)
      topPadding == paddingBefore(totalHeightPadding)
      bottomPadding == paddingAfter(totalHeightPadding, topPadding)
      \* shapes are [height, width, channels]
      originalShape == <<originalHeight, originalWidth, 3>>
      letterboxedShape == <<topPadding + originalShape[1] + bottomPadding,
                            leftPadding + originalShape[2] + rightPadding,
                            originalShape[3]>>
      resizedShape == <<modelHeight, modelWidth, letterboxedShape[3]>>
      batchedShape == <<1>> \o resizedShape
  IN  [processedImage |-> batchedShape,
       letterboxedShape |-> letterboxedShape,
       padding |-> [top |-> topPadding, bottom |-> bottomPadding,
                    left |-> leftPadding, right |-> rightPadding],
       transformParams |->
         [scale |-> scaleOf(targetSquareSize, modelHeight, modelWidth),
          xOffset |-> leftPadding,
          yOffset |-> topPadding,
          originalWidth |-> originalWidth,
          originalHeight |-> originalHeight]]

\* Where pad and resizeBilinear put the source pixel column x / row y: pad
\* shifts it by the leading padding, resizeBilinear([modelHeight, modelWidth])
\* maps the letterboxed width onto modelWidth and its height onto modelHeight.
forwardX(x, res, shape) ==
  RatDiv(RatMul(RatAdd(x, FromInt(res.padding.left)), FromInt(shape[2])),
         FromInt(res.letterboxedShape[2]))

forwardY(y, res, shape) ==
  RatDiv(RatMul(RatAdd(y, FromInt(res.padding.top)), FromInt(shape[1])),
         FromInt(res.letterboxedShape[1]))

(* ---------------------- best-detection selector ----------------------- *)
\* JavaScript's undefined and -Infinity: no rational has denominator 0.
Undefined == [num |-> 0, den |-> 0]
MinusInfinity == [num |-> -1, den |-> 0]

\* arr[i]: the element, undefined outside the array
at(arr, i) == IF i \in DOMAIN arr THEN arr[i] ELSE Undefined

\* Math.max(...arr): -Infinity for an empty array
MathMax(arr) ==
  IF DOMAIN arr = {} THEN MinusInfinity
  ELSE CHOOSE m \in {arr[i] : i \in DOMAIN arr} :
         \A i \in DOMAIN arr : RatLE(arr[i], m)

\* arr.indexOf(v): the first index holding v, -1 when there is none
indexOf(arr, v) ==
  IF \E i \in DOMAIN arr : arr[i] = v
  THEN CHOOSE i \in DOMAIN arr :
         arr[i] = v /\ \A j \in DOMAIN arr : arr[j] = v => i <= j
  ELSE -1

\* arr.lastIndexOf(v)
lastIndexOf(arr, v) ==
  IF \E i \in DOMAIN arr : arr[i] = v
  THEN CHOOSE i \in DOMAIN arr :
         arr[i] = v /\ \A j \in DOMAIN arr : arr[j] = v => j <= i
  ELSE -1

\* Mutant of bestIndex: ties broken by the last occurrence.
bestIndexLast(scoresArray) == lastIndexOf(scoresArray, MathMax(scoresArray))

\* scoresArray.indexOf(Math.max(...scoresArray))
bestIndex(scoresArray) == indexOf(scoresArray, MathMax(scoresArray))

\* Mutant of cornerBox: the box starts at the centre.
cornerBoxFromCenter(centerX, centerY, width, height) ==
  <<centerX, centerY, tfAdd(centerX, width), tfAdd(centerY, height)>>

\* Mutant of cornerBox: the corners clamped at 0.
cornerBoxClamped(centerX, centerY, width, height) ==
  LET halfWidth == tfDiv(width, Two)
      halfHeight == tfDiv(height, Two)
  IN  <<RatMax(Zero, tfSub(centerX, halfWidth)),
        RatMax(Zero, tfSub(centerY, halfHeight)),
        RatMax(Zero, tfAdd(centerX, halfWidth)),
        RatMax(Zero, tfAdd(centerY, halfHeight))>>

\* x1 = cx - w/2, y1 = cy - h/2, x2 = cx + w/2, y2 = cy + h/2
\* (src/index.ts:169-175, src/unnamed/part_000:118-123)
cornerBox(centerX, centerY, width, height) ==
  LET halfWidth == tfDiv(width, Two)
      halfHeight == tfDiv(height, Two)
  IN  <<tfSub(centerX, halfWidth), tfSub(centerY, halfHeight),
        tfAdd(centerX, halfWidth), tfAdd(centerY, halfHeight)>>

\* x1 = cx - w/2, y1 = cy - h/2, x2 = x1 + w, y2 = y1 + h
\* (src/src/02-output-processing.ts:43-46, src/vite.config.ts:70-73)
cornerBoxFromX1(centerX, centerY, width, height) ==
  LET x1 == tfSub(centerX, tfDiv(width, Two))
      y1 == tfSub(centerY, tfDiv(height, Two))
  IN  <<x1, y1, tfAdd(x1, width), tfAdd(y1, height)>>

\* Mutant of formatKeypoints: x and y exchanged in every triplet.
formatKeypointsSwapped(keypointsData) ==
  LET len == Cardinality(DOMAIN keypointsData)
  IN  [j \in 1..((len + 2) \div 3) |->
         <<at(keypointsData, 3 * (j - 1) + 1),
           at(keypointsData, 3 * (j - 1)),
           at(keypointsData, 3 * (j - 1) + 2)>>]

\* the loop over keypointsData: one [x, y, confidence] triplet per 3 values
formatKeypoints(keypointsData) ==
  LET len == Cardinality(DOMAIN keypointsData)
  IN  [j \in 1..((len + 2) \div 3) |->
         <<at(keypointsData, 3 * (j - 1)),
           at(keypointsData, 3 * (j - 1) + 1),
           at(keypointsData, 3 * (j - 1) + 2)>>]

\* Tensors getBestPrediction allocates, in order.
SelectAllocs ==
  <<"transpose", "centerX", "centerY", "width", "height", "halfWidth",
    "halfHeight", "x1", "y1", "x2", "y2", "confidenceScores", "allKeypoints",
    "sliceX1", "sliceY1", "sliceX2", "sliceY2", "concat", "bestBoundingBox",
    "sliceKeypoints", "bestKeypointsTensor">>

\* dispose([...]) at the end of the explicit-dispose getBestPrediction
SelectDisposed ==
  <<"transpose", "centerX", "centerY", "width", "height", "halfWidth",
    "halfHeight", "x1", "y1", "x2", "y2", "confidenceScores", "allKeypoints",
    "bestBoundingBox", "bestKeypointsTensor">>

\* tensor is the [1, channels, anchors] output: tensor[c][a]
getBestPrediction(tensor) ==
  LET numChannels == Cardinality(DOMAIN tensor)
      scoresArray == tensor[4]
      bestPredictionIndex == bestIndex(scoresArray)
      bestConfidence == scoresArray[bestPredictionIndex]
      keypointsData ==
        [i \in 0..(numChannels - 6) |-> tensor[5 + i][bestPredictionIndex]]
  IN  [box |-> cornerBox(tensor[0][bestPredictionIndex],
                         tensor[1][bestPredictionIndex],
                         tensor[2][bestPredictionIndex],
                         tensor[3][bestPredictionIndex]),
       score |-> bestConfidence,
       keypoints |-> formatKeypoints(keypointsData)]

(* ------------------------ coordinate unmapper ------------------------- *)
\* Mutant of transformCoordinate: the offset removed before scaling.
transformCoordinateOffsetFirst(coord, scale, offset) ==
  RatMul(RatSub(coord, FromInt(offset)), scale)

\* Mutant of transformCoordinate: the offset added back instead of removed.
transformCoordinateAdd(coord, scale, offset) ==
  RatAdd(RatMul(coord, scale), FromInt(offset))

transformCoordinate(coord, scale, offset) ==
  RatSub(RatMul(coord, scale), FromInt(offset))

scalePrediction(prediction, transformParams) ==
  LET scale == transformParams.scale
      xOffset == transformParams.xOffset
      yOffset == transformParams.yOffset
      box == prediction.box
  IN  [box |-> <<transformCoordinate(box[1], scale, xOffset),
                 transformCoordinate(box[2], scale, yOffset),
                 transformCoordinate(box[3], scale, xOffset),
                 transformCoordinate(box[4], scale, yOffset)>>,
       score |-> prediction.score,
       keypoints |->
         [k \in DOMAIN prediction.keypoints |->
            <<transformCoordinate(prediction.keypoints[k][1], scale, xOffset),
              transformCoordinate(prediction.keypoints[k][2], scale, yOffset),
              prediction.keypoints[k][3]>>]]

\* Mutant of scalePredictionCall: the scaled coordinates written into the
\* argument.
scalePredictionCallInPlace(prediction, transformParams) ==
  [returned |-> scalePrediction(prediction, transformParams),
   prediction |-> scalePrediction(prediction, transformParams),
   transformParams |-> transformParams]

\* The objects after the call scalePrediction(prediction, transformParams):
\* the value returned, and the two arguments.  The function destructures
\* its arguments, builds scaledBox as an array literal and scaledKeypoints
\* with map, and assigns to no property or element of either argument.
scalePredictionCall(prediction, transformParams) ==
  [returned |-> scalePrediction(prediction, transformParams),
   prediction |-> prediction,
   transformParams |-> transformParams]

(* ---------------------------- render gate ----------------------------- *)
CONFIDENCE_THRESHOLD == Half

\* Mutant of belowThreshold: score <= threshold skips the rendering.
belowThresholdInclusive(score) == RatLE(score, CONFIDENCE_THRESHOLD)

\* Mutant of belowThreshold: the comparison reversed.
belowThresholdReversed(score) == RatLT(CONFIDENCE_THRESHOLD, score)

\* if (score < CONFIDENCE_THRESHOLD) return;
belowThreshold(score) == RatLT(score, CONFIDENCE_THRESHOLD)

\* Mutant of keypointVisible: confidence >= threshold draws the marker.
keypointVisibleInclusive(confidence) == RatLE(CONFIDENCE_THRESHOLD, confidence)

\* if (confidence > CONFIDENCE_THRESHOLD) draw the marker
keypointVisible(confidence) == RatLT(CONFIDENCE_THRESHOLD, confidence)

RECURSIVE keypointOps(_, _)
keypointOps(keypoints, k) ==
  IF k > Len(keypoints) THEN <<>>
  ELSE (IF keypointVisible(keypoints[k][3])
        THEN << <<"arc", keypoints[k][1], keypoints[k][2]>> >>
        ELSE <<>>) \o keypointOps(keypoints, k + 1)

\* Mutant of renderPrediction: the background drawn after the box.
renderPredictionBackgroundLast(props, cv) ==
  IF belowThreshold(props.score) THEN cv
  ELSE [width |-> props.width,
        height |-> props.height,
        ops |-> cv.ops
                \o << <<"width", props.width>>, <<"height", props.height>>,
                      <<"clearRect", props.width, props.height>>,
                      <<"strokeRect", props.box[1], props.box[2],
                        RatSub(props.box[3], props.box[1]),
                        RatSub(props.box[4], props.box[2])>>,
                      <<"drawImage", props.width, props.height>> >>
                \o keypointOps(props.keypoints, 1)]

\* props = [score, box, keypoints, width, height]; cv is the canvas.
\* canvas.ops logs the calls made on the canvas and its context.
renderPrediction(props, cv) ==
  IF belowThreshold(props.score) THEN cv
  ELSE [width |-> props.width,
        height |-> props.height,
        ops |-> cv.ops
                \o << <<"width", props.width>>, <<"height", props.height>>,
                      <<"clearRect", props.width, props.height>>,
                      <<"drawImage", props.width, props.height>>,
                      <<"strokeRect", props.box[1], props.box[2],
                        RatSub(props.box[3], props.box[1]),
                        RatSub(props.box[4], props.box[2])>> >>
                \o keypointOps(props.keypoints, 1)]

renderProps(prediction, transformParams) ==
  [score |-> prediction.score,
   box |-> prediction.box,
   keypoints |-> prediction.keypoints,
   width |-> transformParams.originalWidth,
   height |-> transformParams.originalHeight]

IsDraw(op) == op[1] \in {"clearRect", "drawImage", "strokeRect", "arc"}
DrawOps(cv) == SelectSeq(cv.ops, IsDraw)

(* ------------------------------ inputs -------------------------------- *)
\* Source sizes: every small size, and the sizes the documentation names.
SourceDims ==
  {[width |-> w, height |-> h] : w \in 1..MaxDim, h \in 1..MaxDim}
    \cup {[width |-> 640, height |-> 360], [width |-> 360, height |-> 640],
          [width |-> 251, height |-> 100], [width |-> 400, height |-> 300],
          [width |-> 250, height |-> 405]}

\* Model input shapes <<height, width>>: square ones and a non-square one.
ModelShapes == {<<640, 640>>, <<2, 2>>, <<4, 2>>}

\* Objectness scores and keypoint confidences: below, at and above 0.5.
ScoreValues == <<Rat(1, 4), Half, Rat(3, 4)>>

\* Anchor contents [cx, cy, w, h]: a small box that leaves the image on the
\* left, the box of the documentation's scenario, and one more.
PayloadBoxes == << <<1, 2, 3, 1>>, <<320, 320, 64, 96>>, <<5, 7, 2, 4>> >>

NumChannels == 5 + 3 * NumKeypoints

\* One anchor's channel values: [cx, cy, w, h, score, kp1_x, kp1_y, kp1_c, ...]
\* with score ScoreValues[s] and the box and keypoints of content p.
AnchorRow(s, p) ==
  [c \in 0..(NumChannels - 1) |->
     IF c < 4 THEN FromInt(PayloadBoxes[p][c + 1])
     ELSE IF c = 4 THEN ScoreValues[s]
     ELSE LET k == (c - 5) \div 3
              f == (c - 5) % 3
          IN  IF f = 0 THEN FromInt(PayloadBoxes[p][1] + k)
              ELSE IF f = 1 THEN FromInt(PayloadBoxes[p][2] - 2 * k)
              ELSE \* confidences rise with k: content 1 has every keypoint
                   \* above the threshold, content 2 one at it, one above
                   LET n == Len(ScoreValues)
                   IN  ScoreValues[IF n + 1 - p + k > n THEN n
                                   ELSE n + 1 - p + k]]

\* Every [1, NumChannels, NumAnchors] tensor in which anchor a has any of the
\* scores and the content (a mod 3) + 1, so that neighbours differ.
RawOutputs ==
  {[c \in 0..(NumChannels - 1) |->
      [a \in 0..(NumAnchors - 1) |->
         AnchorRow(scores[a], (a % Len(PayloadBoxes)) + 1)[c]]] :
     scores \in [0..(NumAnchors - 1) -> DOMAIN ScoreValues]}

\* A <canvas> element before any script touched it (the HTML default size).
BlankCanvas == [width |-> 300, height |-> 150, ops |-> <<>>]

(* ----------------------- single-image pipeline ------------------------ *)
LoopIdle ==
  /\ running = FALSE
  /\ label = "Start"
  /\ srcObject = 0
  /\ liveStreams = {}
  /\ readyState = 0
  /\ clicks = 0
  /\ gumPending = {}
  /\ waiters = <<>>
  /\ rafQueue = {}
  /\ rafCounter = 0
  /\ requestAnimationFrameId = 0
  /\ frames = 0
  /\ numTensors = 0
  /\ frameAllocs = 0

LiveIdle == variant = "index" /\ LoopIdle

Init ==
  /\ pc = "start"
  /\ source \in SourceDims
  /\ modelShape \in ModelShapes
  /\ processed = <<>>
  /\ predictions = <<>>
  /\ bestPrediction = <<>>
  /\ scaledPrediction = <<>>
  /\ canvas = BlankCanvas
  /\ LiveIdle

\* const { processedImage, transformParams } = processImageWithLetterboxing(..)
Letterbox ==
  /\ pc = "start"
  /\ processed' = processImageWithLetterboxing(source, modelShape)
  /\ numTensors' = dispose(numTensors + Len(LetterboxAllocs),
                            LetterboxDisposed)
  /\ pc' = "letterboxed"
  /\ UNCHANGED <<source, modelShape, predictions, bestPrediction,
                 scaledPrediction, canvas, loopVars>>

\* const predictions = model.predict(processedImage): any output tensor
Predict ==
  /\ pc = "letterboxed"
  /\ \E t \in RawOutputs : predictions' = t
  /\ numTensors' = numTensors + 1
  /\ pc' = "predicted"
  /\ UNCHANGED <<source, modelShape, processed, bestPrediction,
                 scaledPrediction, canvas, loopVars>>

\* const bestPrediction = await getBestPrediction(predictions)
SelectBest ==
  /\ pc = "predicted"
  /\ bestPrediction' = getBestPrediction(predictions)
  /\ numTensors' = dispose(numTensors + Len(SelectAllocs), SelectDisposed)
  /\ pc' = "selected"
  /\ UNCHANGED <<source, modelShape, processed, predictions,
                 scaledPrediction, canvas, loopVars>>

\* const scaledPrediction = scalePrediction(bestPrediction, transformParams)
Unmap ==
  /\ pc = "selected"
  /\ LET call == scalePredictionCall(bestPrediction, processed.transformParams)
     IN  /\ scaledPrediction' = call.returned
         /\ bestPrediction' = call.prediction
         /\ processed' = [processed EXCEPT
                            !.transformParams = call.transformParams]
  /\ pc' = "scaled"
  /\ UNCHANGED <<source, modelShape, predictions, canvas, liveVars>>

\* dispose([processedImage, predictions]) at the end of main
MainDisposed == <<"expandDims", "predictions">>

\* renderPrediction({canvas, source, ...scaledPrediction, width, height});
\* dispose([processedImage, predictions])
Render ==
  /\ pc = "scaled"
  /\ canvas' = renderPrediction(
                 renderProps(scaledPrediction, processed.transformParams), canvas)
  /\ numTensors' = dispose(numTensors, MainDisposed)
  /\ pc' = "rendered"
  /\ UNCHANGED <<source, modelShape, processed, predictions, bestPrediction,
                 scaledPrediction, loopVars>>

Next == Letterbox \/ Predict \/ SelectBest \/ Unmap \/ Render

Spec == Init /\ [][Next]_vars

(* ===================== properties of the pipeline ===================== *)
Selected == pc \in {"selected", "scaled", "rendered"}
Letterboxed == pc # "start"
Scaled == pc \in {"scaled", "rendered"}
Rendered == pc = "rendered"
AnchorIds == 0..(NumAnchors - 1)

\* C4: getBestPrediction selects by argmax over channel 4 with no threshold:
\* the selected anchor's score is >= every anchor's score, among anchors that
\* share the maximum the lowest index is selected (anchor 0 when all scores
\* are equal), and the returned score (with the box and keypoints) is that
\* anchor's.
C4_ArgmaxFirstOccurrence ==
  Selected =>
    LET scores == predictions[4]
        i == bestIndex(scores)
    IN  /\ i \in AnchorIds
        /\ \A j \in AnchorIds : RatLE(scores[j], scores[i])
        /\ \A j \in AnchorIds : scores[j] = scores[i] => i <= j
        /\ (\A j \in AnchorIds : scores[j] = scores[0]) => i = 0
        /\ bestPrediction.score = scores[i]
        /\ bestPrediction.keypoints[1] =
             <<predictions[5][i], predictions[6][i], predictions[7][i]>>
        /\ RatAdd(bestPrediction.box[1], bestPrediction.box[3]) =
             RatMul(Two, predictions[0][i])

\* Two anchors with different contents share a maximum score that is below
\* the threshold, and the lower one has been returned.
C4_Witness ==
  /\ pc = "selected"
  /\ \E a, b \in AnchorIds :
       /\ a < b
       /\ predictions[4][a] = predictions[4][b]
       /\ predictions[0][a] # predictions[0][b]
       /\ \A j \in AnchorIds : RatLE(predictions[4][j], predictions[4][a])
       /\ \A j \in AnchorIds : j < a => predictions[4][j] # predictions[4][a]
       /\ RatLT(predictions[4][a], CONFIDENCE_THRESHOLD)
       /\ bestPrediction.score = predictions[4][a]
       /\ bestPrediction.keypoints[1][1] = predictions[5][a]

\* C5: scale = max(w, h) / modelWidth, xOffset = floor((max(w, h) - w) / 2),
\* yOffset = floor((max(w, h) - h) / 2); the model height plays no part.
C5_LetterboxParams ==
  Letterboxed =>
    LET tp == processed.transformParams
        m == Max(source.width, source.height)
    IN  /\ tp.scale.num * modelShape[2] = m * tp.scale.den
        /\ tp.scale.den > 0
        /\ tp.xOffset = (m - source.width) \div 2
        /\ tp.yOffset = (m - source.height) \div 2

\* A non-square model input and a source with an odd difference.
C5_Witness ==
  /\ pc = "letterboxed"
  /\ modelShape[1] # modelShape[2]
  /\ (source.width - source.height) % 2 = 1
  /\ processed.transformParams.xOffset + processed.transformParams.yOffset > 0

\* coord * scale - offset, written out
Unmapped(coord, scale, offset) ==
  Rat(coord.num * scale.num - offset * coord.den * scale.den,
      coord.den * scale.den)

\* C6: scalePrediction maps x1, x2 and every keypoint x by
\* x * scale - xOffset, y1, y2 and every keypoint y by y * scale - yOffset,
\* keeps every confidence and the score, and keeps the keypoints' number and
\* order.
C6_ScalePrediction ==
  Scaled =>
    LET tp == processed.transformParams
        b == bestPrediction
        s == scaledPrediction
    IN  /\ s.box[1] = Unmapped(b.box[1], tp.scale, tp.xOffset)
        /\ s.box[2] = Unmapped(b.box[2], tp.scale, tp.yOffset)
        /\ s.box[3] = Unmapped(b.box[3], tp.scale, tp.xOffset)
        /\ s.box[4] = Unmapped(b.box[4], tp.scale, tp.yOffset)
        /\ s.score = b.score
        /\ DOMAIN s.keypoints = DOMAIN b.keypoints
        /\ \A k \in DOMAIN b.keypoints :
             /\ s.keypoints[k][1] = Unmapped(b.keypoints[k][1], tp.scale, tp.xOffset)
             /\ s.keypoints[k][2] = Unmapped(b.keypoints[k][2], tp.scale, tp.yOffset)
             /\ s.keypoints[k][3] = b.keypoints[k][3]

\* A padded axis, a scale other than 1 and keypoints of different confidence.
C6_Witness ==
  /\ pc = "scaled"
  /\ processed.transformParams.xOffset > 0
  /\ processed.transformParams.yOffset = 0
  /\ processed.transformParams.scale # FromInt(1)
  /\ Len(scaledPrediction.keypoints) = NumKeypoints
  /\ scaledPrediction.keypoints[1][3] # scaledPrediction.keypoints[2][3]
  /\ scaledPrediction.box[1] # bestPrediction.box[1]

\* Source-space points the round trip is tried on.
Points ==
  {FromInt(0), FromInt(1), Rat(1, 2), FromInt(-1), FromInt(source.width),
   FromInt(source.height)}

\* C7: with a square model input, a source point p sent through pad and
\* resizeBilinear, m = (p + offset) / scale, and back through
\* transformCoordinate, m * scale - offset, is p again, on both axes.
C7_RoundTrip ==
  (Letterboxed /\ modelShape[1] = modelShape[2]) =>
    LET tp == processed.transformParams
    IN  \A p \in Points :
          /\ forwardX(p, processed, modelShape) =
               RatDiv(RatAdd(p, FromInt(tp.xOffset)), tp.scale)
          /\ forwardY(p, processed, modelShape) =
               RatDiv(RatAdd(p, FromInt(tp.yOffset)), tp.scale)
          /\ transformCoordinate(forwardX(p, processed, modelShape),
                                 tp.scale, tp.xOffset) = p
          /\ transformCoordinate(forwardY(p, processed, modelShape),
                                 tp.scale, tp.yOffset) = p

\* The odd-difference source 251x100 on the 640x640 model input.
C7_Witness ==
  /\ pc = "letterboxed"
  /\ modelShape = <<640, 640>>
  /\ source = [width |-> 251, height |-> 100]
  /\ processed.padding.top = 75
  /\ processed.padding.bottom = 76
  /\ forwardY(Zero, processed, modelShape) # Zero

\* C8 as stated: a score equal to the threshold is not drawn, a score above
\* it is drawn.
C8_EqualIsNotDrawn ==
  Rendered =>
    /\ scaledPrediction.score = CONFIDENCE_THRESHOLD => DrawOps(canvas) = <<>>
    /\ RatLT(CONFIDENCE_THRESHOLD, scaledPrediction.score) =>
         DrawOps(canvas) # <<>>

\* C8 amended: a score equal to the threshold is not below it and is drawn,
\* like a score above it.
C8_EqualIsDrawn ==
  Rendered =>
    /\ scaledPrediction.score = CONFIDENCE_THRESHOLD => DrawOps(canvas) # <<>>
    /\ RatLT(CONFIDENCE_THRESHOLD, scaledPrediction.score) =>
         DrawOps(canvas) # <<>>

C8_Witness ==
  /\ Rendered
  /\ scaledPrediction.score = CONFIDENCE_THRESHOLD
  /\ \E i \in DOMAIN canvas.ops : canvas.ops[i][1] = "strokeRect"

\* C9: with score < threshold renderPrediction leaves the canvas as it was:
\* no width or height assignment, no clear, no image, box or marker, whatever
\* the keypoint confidences are.
C9_BelowThresholdNoOp ==
  (Rendered /\ RatLT(scaledPrediction.score, CONFIDENCE_THRESHOLD)) =>
    /\ canvas = BlankCanvas
    /\ canvas.ops = <<>>

\* A detection below the threshold with a keypoint above it was rendered, on
\* a canvas whose size differs from the source's.
C9_Witness ==
  /\ Rendered
  /\ RatLT(scaledPrediction.score, CONFIDENCE_THRESHOLD)
  /\ \E k \in DOMAIN scaledPrediction.keypoints :
       RatLT(CONFIDENCE_THRESHOLD, scaledPrediction.keypoints[k][3])
  /\ canvas.width # source.width
  /\ canvas.height # source.height

IsArc(op) == op[1] = "arc"
IsStrokeRect(op) == op[1] = "strokeRect"
AboveThreshold(kp) == RatLT(CONFIDENCE_THRESHOLD, kp[3])

\* C10: a drawn detection has its box stroked once, and a marker for exactly
\* the keypoints whose own confidence is > threshold, in keypoint order,
\* whatever the detection's score is.
C10_KeypointGate ==
  (Rendered /\ ~RatLT(scaledPrediction.score, CONFIDENCE_THRESHOLD)) =>
    LET arcs == SelectSeq(canvas.ops, IsArc)
        visible == SelectSeq(scaledPrediction.keypoints, AboveThreshold)
    IN  /\ Len(SelectSeq(canvas.ops, IsStrokeRect)) = 1
        /\ Len(arcs) = Len(visible)
        /\ \A i \in DOMAIN arcs :
             arcs[i] = <<"arc", visible[i][1], visible[i][2]>>

\* A drawn detection with one keypoint at the threshold (omitted) and one
\* above it (drawn), the detection's own score being at the threshold.
C10_Witness ==
  /\ Rendered
  /\ scaledPrediction.score = CONFIDENCE_THRESHOLD
  /\ \E k \in DOMAIN scaledPrediction.keypoints :
       scaledPrediction.keypoints[k][3] = CONFIDENCE_THRESHOLD
  /\ Len(SelectSeq(canvas.ops, IsArc)) = 1
  /\ Len(SelectSeq(canvas.ops, IsStrokeRect)) = 1

(* =========================== live video =============================== *)
(* The page is driven by tasks of the browser's event loop; each action is *)
(* one task run to completion: a toggle click (the handler up to its first *)
(* await), the settling of getUserMedia, a media event of the <video> (with *)
(* the continuations of the handlers it resumes) and an animation frame.    *)
(* canvas.ops is emptied when a task starts, so it holds that task's calls. *)
(*                                                                          *)
(* Browser and library behaviour the code relies on:                        *)
(*  - assigning video.srcObject runs the media element load algorithm,      *)
(*    which sets readyState to 0; loadedmetadata raises it to 1 and         *)
(*    loadeddata to 2, and only while a stream is attached;                 *)
(*  - tfBrowser.fromPixels(video) throws while readyState < 2;              *)
(*  - tidy releases the tensors of its scope also when its callback throws; *)
(*  - the camera delivers frames of the size of the element's box.          *)

\* const { width, height } = video.getBoundingClientRect()
VideoRect == [width |-> 4, height |-> 2]

\* model.inputs[0].shape.slice(1, 3) of the loaded model
LiveModelShape == <<640, 640>>

\* What model.predict returns for a frame: all anchors at one score.
LiveOutputs == {t \in RawOutputs : \A a \in AnchorIds : t[4][a] = t[4][0]}

TaskStart(cv) == [cv EXCEPT !.ops = <<>>]

\* Mutant of tidy: the scope's tensors are never released.
tidyLeak(before, allocated, kept) == before + allocated

\* tidy(fn): of the tensors allocated inside fn only those it returns stay.
tidy(before, allocated, kept) == before + kept

\* requestAnimationFrame(cb) on the loop state st: a new id, now pending
requestFrame(st) ==
  [st EXCEPT !.rafCounter = st.rafCounter + 1,
             !.rafQueue = st.rafQueue \cup {st.rafCounter + 1}]

\* Mutant of processImage: the next frame is requested only when the
\* detection was drawn.
processImageGated(st, t, video, ready) ==
  IF ready < 2
  THEN [st EXCEPT !.frames = st.frames + 1,
                  !.frameAllocs = 0,
                  !.numTensors = tidy(st.numTensors, 0, 0)]
  ELSE LET res == processImageWithLetterboxing(video, LiveModelShape)
           best == getBestPrediction(t)
           scaled == scalePrediction(best, res.transformParams)
           allocs == Len(LetterboxAllocs) + 1 + Len(SelectAllocs)
           rendered == renderPrediction(
                         renderProps(scaled, res.transformParams), st.canvas)
           after == [st EXCEPT !.canvas = rendered,
                               !.frames = st.frames + 1,
                               !.frameAllocs = allocs,
                               !.numTensors = tidy(st.numTensors, allocs, 0)]
       IN  IF belowThreshold(best.score) THEN after ELSE requestFrame(after)

\* processImage(canvas, video, model) of index.ts on prediction t.
\* st = [canvas, rafQueue, rafCounter, rafId, running, frames, numTensors,
\*       frameAllocs]
processImage(st, t, video, ready) ==
  IF ready < 2
  THEN \* fromPixels throws: nothing is drawn, nothing is scheduled
       [st EXCEPT !.frames = st.frames + 1,
                  !.frameAllocs = 0,
                  !.numTensors = tidy(st.numTensors, 0, 0)]
  ELSE LET res == processImageWithLetterboxing(video, LiveModelShape)
           best == getBestPrediction(t)
           scaled == scalePrediction(best, res.transformParams)
           allocs == Len(LetterboxAllocs) + 1 + Len(SelectAllocs)
           rendered == renderPrediction(
                         renderProps(scaled, res.transformParams), st.canvas)
       IN  requestFrame(
             [st EXCEPT !.canvas = rendered,
                        !.frames = st.frames + 1,
                        !.frameAllocs = allocs,
                        !.numTensors = tidy(st.numTensors, allocs, 0)])

RECURSIVE markerOps(_, _, _)
\* the keypoint loop of renderPosePredictions (vite.config.ts:46-59)
markerOps(keypoints, k, props) ==
  IF k > Len(keypoints) THEN <<>>
  ELSE (IF RatLT(Half, keypoints[k][3])
        THEN LET x == RatSub(RatMul(keypoints[k][1], props.scale),
                             FromInt(props.dx))
                 y == RatSub(RatMul(keypoints[k][2], props.scale),
                             FromInt(props.dy))
             IN  << <<"arc",
                      RatMax(Zero, RatMin(x, FromInt(props.width))),
                      RatMax(Zero, RatMin(y, FromInt(props.height)))>> >>
        ELSE <<>>) \o markerOps(keypoints, k + 1, props)

\* renderPosePredictions of the cancelAnimationFrame page: no score gate
renderPosePredictions(props, cv) ==
  [cv EXCEPT !.ops = cv.ops
                     \o << <<"clearRect", props.width, props.height>>,
                           <<"drawImage", props.width, props.height>> >>
                     \o markerOps(props.keypoints, 1, props)]

\* getBestPrediction of the cancelAnimationFrame page (vite.config.ts:62-108):
\* x2 = x1 + w, y2 = y1 + h
getBestPredictionCancel(tensor) ==
  LET numChannels == Cardinality(DOMAIN tensor)
      scoresData == tensor[4]
      maxScoreIndex == bestIndex(scoresData)
      keypointsData ==
        [i \in 0..(numChannels - 6) |-> tensor[5 + i][maxScoreIndex]]
  IN  [box |-> cornerBoxFromX1(tensor[0][maxScoreIndex],
                               tensor[1][maxScoreIndex],
                               tensor[2][maxScoreIndex],
                               tensor[3][maxScoreIndex]),
       score |-> scoresData[maxScoreIndex],
       keypoints |-> formatKeypoints(keypointsData)]

\* Tensors processFrame allocates before and after getBestPrediction's.
FrameAllocs ==
  <<"fromPixels", "toFloat", "div", "padded", "resized", "batched",
    "predictions">>

\* processFrame(model, video, canvas) of the cancelAnimationFrame page on
\* prediction t
processFrame(st, t, video, ready) ==
  IF ready < 2
  THEN \* fromPixels throws inside tidy: the promise rejects, no frame request
       [st EXCEPT !.frames = st.frames + 1,
                  !.frameAllocs = 0,
                  !.numTensors = tidy(st.numTensors, 0, 0)]
  ELSE LET inputWidth == video.width
           inputHeight == video.height
           maxDim == Max(inputWidth, inputHeight)
           dx == paddingBefore(maxDim - inputWidth)
           dy == paddingBefore(maxDim - inputHeight)
           scale == scaleOf(maxDim, LiveModelShape[1], LiveModelShape[2])
           best == getBestPredictionCancel(t)
           allocs == Len(FrameAllocs) + Len(SelectAllocs)
           rendered == renderPosePredictions(
                         [keypoints |-> best.keypoints, width |-> inputWidth,
                          height |-> inputHeight, scale |-> scale,
                          dx |-> dx, dy |-> dy], st.canvas)
       IN  requestFrame(
             [st EXCEPT !.canvas = rendered,
                        !.frames = st.frames + 1,
                        !.frameAllocs = allocs,
                        !.numTensors = tidy(st.numTensors, allocs, 0)])

\* The loop state the frame operators work on, and its write-back.
LoopState ==
  [canvas |-> TaskStart(canvas), rafQueue |-> rafQueue,
   rafCounter |-> rafCounter, rafId |-> requestAnimationFrameId,
   running |-> running, frames |-> frames, numTensors |-> numTensors,
   frameAllocs |-> frameAllocs]

SetLoopState(st) ==
  /\ canvas' = st.canvas
  /\ rafQueue' = st.rafQueue
  /\ rafCounter' = st.rafCounter
  /\ requestAnimationFrameId' = st.rafId
  /\ running' = st.running
  /\ frames' = st.frames
  /\ numTensors' = st.numTensors
  /\ frameAllocs' = st.frameAllocs

\* index.ts:441-445, what a click handler does once startVideo has resolved:
\* request the first frame, then running = !running
resumeIndex(st) == [requestFrame(st) EXCEPT !.running = ~st.running]

RECURSIVE resumeAllIndex(_, _)
resumeAllIndex(st, n) ==
  IF n = 0 THEN st ELSE resumeAllIndex(resumeIndex(st), n - 1)

\* vite.config.ts:201, requestAnimationFrameId = await processFrame(...):
\* the first frame runs at once and the id of the frame it requested is kept
resumeCancel(st, t, video) ==
  LET after == processFrame(st, t, video, 2)
  IN  [after EXCEPT !.rafId = after.rafCounter]

RECURSIVE resumeAllCancel(_, _, _, _)
resumeAllCancel(st, ts, k, video) ==
  IF k > Len(ts) THEN st
  ELSE resumeAllCancel(resumeCancel(st, ts[k], video), ts, k + 1, video)

LiveInit ==
  /\ pc = "live"
  /\ source = [width |-> 0, height |-> 0]
  /\ modelShape = LiveModelShape
  /\ processed = <<>>
  /\ predictions = <<>>
  /\ bestPrediction = <<>>
  /\ scaledPrediction = <<>>
  /\ canvas = BlankCanvas
  /\ variant \in {"index", "cancel"}
  /\ running = FALSE
  /\ label = "Start"
  /\ srcObject = 0
  /\ liveStreams = {}
  /\ readyState = 0
  /\ clicks = 0
  /\ gumPending = {}
  /\ waiters = <<>>
  /\ rafQueue = {}
  /\ rafCounter = 0
  /\ requestAnimationFrameId = 0
  /\ frames = 0
  /\ numTensors = 0
  /\ frameAllocs = 0

pipeRest == <<pc, modelShape, processed, predictions, bestPrediction,
              scaledPrediction>>

\* stopVideo(video) on an attached stream: its tracks stop, srcObject = null
StopVideo ==
  /\ liveStreams' = liveStreams \ {srcObject}
  /\ srcObject' = 0
  /\ readyState' = 0

\* The toggle's click handler of index.ts (426-446) up to its first await.
ClickIndex ==
  /\ variant = "index"
  /\ clicks < MaxClicks
  /\ clicks' = clicks + 1
  /\ IF running
     THEN /\ label' = "Start"
          /\ canvas' = TaskStart(canvas)
          /\ IF srcObject = 0
             THEN \* stream.getTracks() on null throws: running keeps its value
                  UNCHANGED <<liveStreams, srcObject, readyState, running>>
             ELSE StopVideo /\ running' = ~running
          /\ UNCHANGED <<source, gumPending>>
     ELSE /\ label' = "Stop"
          /\ canvas' = [width |-> VideoRect.width, height |-> VideoRect.height,
                        ops |-> << <<"width", VideoRect.width>>,
                                   <<"height", VideoRect.height>> >>]
          /\ source' = VideoRect
          /\ gumPending' = gumPending \cup {clicks + 1}
          /\ UNCHANGED <<liveStreams, srcObject, readyState, running>>
  /\ UNCHANGED <<pipeRest, variant, waiters, rafQueue, rafCounter,
                 requestAnimationFrameId, frames, numTensors, frameAllocs>>

\* The toggle's click handler of the cancelAnimationFrame page
\* (vite.config.ts:190-203) up to its first await.
ClickCancel ==
  /\ variant = "cancel"
  /\ clicks < MaxClicks
  /\ clicks' = clicks + 1
  /\ IF srcObject # 0
     THEN /\ label' = "Start"
          /\ canvas' = TaskStart(canvas)
          /\ rafQueue' = rafQueue \ {requestAnimationFrameId}
          /\ StopVideo
          /\ UNCHANGED <<source, gumPending>>
     ELSE /\ label' = "Stop"
          /\ canvas' = [width |-> VideoRect.width, height |-> VideoRect.height,
                        ops |-> << <<"width", VideoRect.width>>,
                                   <<"height", VideoRect.height>> >>]
          /\ source' = VideoRect
          /\ gumPending' = gumPending \cup {clicks + 1}
          /\ UNCHANGED <<liveStreams, srcObject, readyState, rafQueue>>
  /\ UNCHANGED <<pipeRest, variant, running, waiters, rafCounter,
                 requestAnimationFrameId, frames, numTensors, frameAllocs>>

\* startVideo after getUserMedia resolved: video.srcObject = stream, then the
\* handler waits for the media event.
GetUserMediaResolves ==
  \E h \in gumPending :
    /\ gumPending' = gumPending \ {h}
    /\ srcObject' = h
    /\ liveStreams' = liveStreams \cup {h}
    /\ readyState' = 0
    /\ waiters' = Append(waiters, h)
    /\ canvas' = TaskStart(canvas)
    /\ UNCHANGED <<pipeRest, source, variant, running, label, clicks, rafQueue,
                   rafCounter, requestAnimationFrameId, frames, numTensors,
                   frameAllocs>>

\* getUserMedia rejects (no camera, permission denied): the handler ends.
GetUserMediaRejects ==
  \E h \in gumPending :
    /\ gumPending' = gumPending \ {h}
    /\ canvas' = TaskStart(canvas)
    /\ UNCHANGED <<pipeRest, source, variant, running, label, srcObject,
                   liveStreams, readyState, clicks, waiters, rafQueue,
                   rafCounter, requestAnimationFrameId, frames, numTensors,
                   frameAllocs>>

\* "loadedmetadata" fires: on index.ts every waiting handler resumes.
LoadedMetadata ==
  /\ srcObject # 0
  /\ readyState = 0
  /\ readyState' = 1
  /\ IF variant = "index"
     THEN /\ SetLoopState(resumeAllIndex(LoopState, Len(waiters)))
          /\ waiters' = <<>>
     ELSE /\ canvas' = TaskStart(canvas)
          /\ UNCHANGED <<waiters, rafQueue, rafCounter, requestAnimationFrameId,
                         running, frames, numTensors, frameAllocs>>
  /\ UNCHANGED <<pipeRest, source, variant, label, srcObject, liveStreams,
                 clicks, gumPending>>

\* "loadeddata" fires: on the cancelAnimationFrame page every waiting handler
\* resumes and runs its first frame.
LoadedData ==
  /\ srcObject # 0
  /\ readyState = 1
  /\ readyState' = 2
  /\ IF variant = "cancel"
     THEN /\ frames + Len(waiters) <= MaxFrames
          /\ \E ts \in [1..Len(waiters) -> LiveOutputs] :
               SetLoopState(resumeAllCancel(LoopState, ts, 1, source))
          /\ waiters' = <<>>
     ELSE /\ canvas' = TaskStart(canvas)
          /\ UNCHANGED <<waiters, rafQueue, rafCounter, requestAnimationFrameId,
                         running, frames, numTensors, frameAllocs>>
  /\ UNCHANGED <<pipeRest, source, variant, label, srcObject, liveStreams,
                 clicks, gumPending>>

\* the oldest pending animation-frame callback
NextFrameId == CHOOSE id \in rafQueue : \A other \in rafQueue : id <= other

\* An animation frame of index.ts: () => processImage(canvas, video, model)
FrameIndex ==
  /\ variant = "index"
  /\ rafQueue # {}
  /\ frames < MaxFrames
  /\ \E t \in LiveOutputs :
       SetLoopState(processImage(
         [LoopState EXCEPT !.rafQueue = rafQueue \ {NextFrameId}],
         t, source, readyState))
  /\ UNCHANGED <<pipeRest, source, variant, label, srcObject, liveStreams,
                 readyState, clicks, gumPending, waiters>>

\* An animation frame of the cancelAnimationFrame page:
\* () => processFrame(model, video, canvas)
FrameCancel ==
  /\ variant = "cancel"
  /\ rafQueue # {}
  /\ frames < MaxFrames
  /\ \E t \in LiveOutputs :
       SetLoopState(processFrame(
         [LoopState EXCEPT !.rafQueue = rafQueue \ {NextFrameId}],
         t, source, readyState))
  /\ UNCHANGED <<pipeRest, source, variant, label, srcObject, liveStreams,
                 readyState, clicks, gumPending, waiters>>

LiveNext ==
  \/ ClickIndex
  \/ ClickCancel
  \/ GetUserMediaResolves
  \/ GetUserMediaRejects
  \/ LoadedMetadata
  \/ LoadedData
  \/ FrameIndex
  \/ FrameCancel

LiveSpec == LiveInit /\ [][LiveNext]_vars

(* ===================== properties of live video ======================= *)
\* C1: no draw after stop. toggle.textContent is "Start" from the moment a
\* stop click has been handled until the user clicks to start again; a task
\* that runs in between issues no clearRect, drawImage, strokeRect or arc.
C1_NoDrawAfterStop == label = "Start" => DrawOps(canvas) = <<>>

C1_IndexOnly == variant = "index" => C1_NoDrawAfterStop
C1_CancelOnly == variant = "cancel" => C1_NoDrawAfterStop

\* C2: every tensor a frame allocates is released before the next frame
\* begins: between tasks the number of live tensors is its initial value,
\* whatever the number of frames processed.
C2_TensorsReleased == numTensors = 0

\* Two frames have run, the last one allocated its tensors, and a third frame
\* is about to start.
C2_Witness ==
  /\ frames >= 2
  /\ frameAllocs >= Len(LetterboxAllocs) + Len(SelectAllocs)
  /\ rafQueue # {}
  /\ readyState = 2
  /\ numTensors = 0

\* C3: at any time at most one frame callback is scheduled or executing, for
\* any sequence of toggle clicks.
C3_AtMostOneFrame == Cardinality(rafQueue) <= 1

C3_IndexOnly == variant = "index" => C3_AtMostOneFrame
C3_CancelOnly == variant = "cancel" => C3_AtMostOneFrame

(* ------------------- best-detection selector alone -------------------- *)
\* Float32 values of a centre coordinate and of a box side: small ones,
\* the documentation's, and ones at the edge of the 24-bit significand.
BoxCenters == {0, 1, 320, 16777216}
BoxSizes == {0, 1, 3, 64, 641}

\* Output tensors in which anchor `best` has the highest score and the box
\* b = <<cx, cy, w, h>>; the other anchors are those of AnchorRow.
BoxOutput(best, b) ==
  [c \in 0..(NumChannels - 1) |->
     [a \in 0..(NumAnchors - 1) |->
        IF a = best
        THEN (IF c < 4 THEN FromInt(b[c + 1]) ELSE AnchorRow(3, 1)[c])
        ELSE AnchorRow(1, (a % Len(PayloadBoxes)) + 1)[c]]]

BoxOutputs ==
  {BoxOutput(best, <<cx, cy, w, h>>) :
     best \in 0..(NumAnchors - 1), cx \in BoxCenters, cy \in {1, 16777216},
     w \in BoxSizes, h \in {3, 64}}

\* An output of nc channels and na anchors: anchor a has the content and
\* the score (a mod 3) + 1, channels beyond the expected ones hold 0.5.
OutputOfShape(nc, na) ==
  [c \in 0..(nc - 1) |->
     [a \in 0..(na - 1) |->
        IF c < NumChannels
        THEN AnchorRow((a % Len(ScoreValues)) + 1,
                       (a % Len(PayloadBoxes)) + 1)[c]
        ELSE Half]]

\* Outputs that do not have the [1, NumChannels, NumAnchors] layout: one
\* channel too many, one too few, no anchors, one anchor too many.
MalformedOutputs ==
  {OutputOfShape(NumChannels + 1, NumAnchors),
   OutputOfShape(NumChannels - 1, NumAnchors),
   OutputOfShape(NumChannels, 0),
   OutputOfShape(NumChannels, NumAnchors + 1)}

\* What the selector returns for an output without anchors when the slices
\* at index -1 do not throw: scoresArray[-1] is undefined.
emptyDetection ==
  [box |-> <<Undefined, Undefined, Undefined, Undefined>>,
   score |-> Undefined,
   keypoints |-> <<>>]

\* The selector applied to a raw output, in either of its two forms.
SelectorInit ==
  /\ pc = "raw"
  /\ variant \in {"index", "cancel"}
  /\ predictions \in BoxOutputs \cup MalformedOutputs
  /\ source = <<>>
  /\ modelShape = <<>>
  /\ processed = <<>>
  /\ bestPrediction = <<>>
  /\ scaledPrediction = <<>>
  /\ canvas = BlankCanvas
  /\ LoopIdle

selectorRest == <<source, modelShape, processed, predictions,
                  scaledPrediction, canvas, liveVars>>

\* getBestPrediction of src/index.ts.  Neither form checks the shape of
\* its argument.  Without anchors indexOf yields -1 and the slices at -1
\* are outside what the library defines: they throw or yield no data.
SelectIndex ==
  /\ pc = "raw"
  /\ variant = "index"
  /\ IF DOMAIN predictions[4] = {}
     THEN \/ pc' = "failed" /\ bestPrediction' = bestPrediction
          \/ pc' = "boxed" /\ bestPrediction' = emptyDetection
     ELSE pc' = "boxed" /\ bestPrediction' = getBestPrediction(predictions)
  /\ UNCHANGED selectorRest

\* getBestPrediction of vite.config.ts / 02-output-processing.ts
SelectCancel ==
  /\ pc = "raw"
  /\ variant = "cancel"
  /\ IF DOMAIN predictions[4] = {}
     THEN \/ pc' = "failed" /\ bestPrediction' = bestPrediction
          \/ pc' = "boxed" /\ bestPrediction' = emptyDetection
     ELSE pc' = "boxed"
          /\ bestPrediction' = getBestPredictionCancel(predictions)
  /\ UNCHANGED selectorRest

SelectorNext == SelectIndex \/ SelectCancel

SelectorSpec == SelectorInit /\ [][SelectorNext]_vars

\* the selector returned the detection of an anchor
Boxed == pc = "boxed" /\ DOMAIN predictions[4] # {}
\* the [1, NumChannels, NumAnchors] layout
WellFormed(t) ==
  /\ DOMAIN t = 0..(NumChannels - 1)
  /\ \A c \in DOMAIN t : DOMAIN t[c] = AnchorIds
\* v is a float32 value
Representable(v) == fround(v) = v
\* channel c of the anchor the selector picks
BestChannel(c) == predictions[c][bestIndex(predictions[4])]
\* cx - w/2 and cx + w/2 computed without rounding
ExactLow(center, size) == RatSub(center, RatDiv(size, Two))
ExactHigh(center, size) == RatAdd(center, RatDiv(size, Two))
NoRounding(center, size) ==
  /\ Representable(RatDiv(size, Two))
  /\ Representable(ExactLow(center, size))
  /\ Representable(ExactHigh(center, size))

(* ------------------------------- C11 ---------------------------------- *)
\* C11 as stated: the variants that compute x2 = cx + w/2 return the same
\* box as the variants that compute x2 = x1 + w, for every input.
C11_SameBoxEveryInput ==
  Boxed =>
    getBestPrediction(predictions).box = getBestPredictionCancel(predictions).box

\* C11 (amended): the box is not clamped, and whenever w/2, cx - w/2 and
\* cx + w/2 are float32 values (no rounding occurs) either variant returns
\* x1 = cx - w/2 and x2 = x1 + w exactly; likewise for y.  With rounding
\* the two variants may differ in x2 or y2.
C11_BoxConversion ==
  Boxed =>
    LET cx == BestChannel(0)
        cy == BestChannel(1)
        w == BestChannel(2)
        h == BestChannel(3)
        x1 == ExactLow(cx, w)
        y1 == ExactLow(cy, h)
    IN  /\ NoRounding(cx, w) =>
             /\ bestPrediction.box[1] = x1
             /\ bestPrediction.box[3] = RatAdd(x1, w)
        /\ NoRounding(cy, h) =>
             /\ bestPrediction.box[2] = y1
             /\ bestPrediction.box[4] = RatAdd(y1, h)
        /\ (NoRounding(cx, w) /\ NoRounding(cy, h)) =>
             getBestPrediction(predictions).box
               = getBestPredictionCancel(predictions).box

\* A box that leaves the model square on the left and on the right, kept
\* as computed by the cx + w/2 variant.
C11_Witness ==
  /\ Boxed
  /\ variant = "index"
  /\ NoRounding(BestChannel(0), BestChannel(2))
  /\ NoRounding(BestChannel(1), BestChannel(3))
  /\ RatLT(bestPrediction.box[1], Zero)
  /\ RatLT(FromInt(640), bestPrediction.box[3])

(* ------------------------------- C12 ---------------------------------- *)
\* C12: from an output of 5 + 3*NumKeypoints channels the selector returns
\* one detection with exactly NumKeypoints keypoints; keypoint k (from 0)
\* is channels 5+3k, 6+3k, 7+3k of the selected anchor, in channel order,
\* and the box and the score are taken from that same anchor.
C12_KeypointLayout ==
  Selected =>
    LET i == bestIndex(predictions[4])
        kps == bestPrediction.keypoints
    IN  /\ DOMAIN kps = 1..NumKeypoints
        /\ \A k \in 0..(NumKeypoints - 1) :
             kps[k + 1] = <<predictions[5 + 3 * k][i],
                            predictions[6 + 3 * k][i],
                            predictions[7 + 3 * k][i]>>
        /\ bestPrediction.score = predictions[4][i]
        /\ bestPrediction.box[1] = ExactLow(predictions[0][i], predictions[2][i])
        /\ bestPrediction.box[2] = ExactLow(predictions[1][i], predictions[3][i])

\* The selected anchor is not the first one and its neighbours hold other
\* keypoints, so taking them from another anchor would show.
C12_Witness ==
  /\ Selected
  /\ bestIndex(predictions[4]) = 1
  /\ \A a \in AnchorIds \ {1} :
       <<predictions[5][a], predictions[6][a]>>
         # <<predictions[5][1], predictions[6][1]>>
  /\ bestPrediction.keypoints[1] # bestPrediction.keypoints[2]

(* ------------------------------- C13 ---------------------------------- *)
\* C13: the paddings of an axis and the source extent add up to the target
\* square size exactly: left + width + right = max(width, height) and
\* top + height + bottom = max(width, height).
C13_PaddingTotals ==
  Letterboxed =>
    LET pad == processed.padding
        m == Max(source.width, source.height)
    IN  /\ pad.left + source.width + pad.right = m
        /\ pad.top + source.height + pad.bottom = m
        /\ processed.letterboxedShape[1] = m
        /\ processed.letterboxedShape[2] = m

\* A source whose padded axis needs an odd number of pixels.
C13_Witness ==
  /\ pc = "letterboxed"
  /\ Abs(source.width - source.height) % 2 = 1
  /\ processed.padding.left + processed.padding.right
       + processed.padding.top + processed.padding.bottom
       = Abs(source.width - source.height)

(* ------------------------------- C14 ---------------------------------- *)
\* C14: on each axis the padding after the image minus the padding before
\* it is 0 when the total is even and 1 when it is odd; a 250x405 source
\* gets left 77, right 78, top 0, bottom 0.
C14_OddPixelAfter ==
  Letterboxed =>
    LET pad == processed.padding
        m == Max(source.width, source.height)
    IN  /\ pad.right - pad.left = (m - source.width) % 2
        /\ pad.bottom - pad.top = (m - source.height) % 2
        /\ (source.width = 250 /\ source.height = 405) =>
             pad = [top |-> 0, bottom |-> 0, left |-> 77, right |-> 78]

\* The 250x405 source has been letterboxed.
C14_Witness ==
  /\ pc = "letterboxed"
  /\ source = [width |-> 250, height |-> 405]
  /\ processed.padding.right = processed.padding.left + 1

(* ------------------------------- C15 ---------------------------------- *)
\* C15: a square source gets no padding (all four paddings, xOffset and
\* yOffset are 0) and scale = width / modelWidth.
C15_SquareSource ==
  (Letterboxed /\ source.width = source.height) =>
    LET pad == processed.padding
        tp == processed.transformParams
    IN  /\ pad = [top |-> 0, bottom |-> 0, left |-> 0, right |-> 0]
        /\ tp.xOffset = 0
        /\ tp.yOffset = 0
        /\ tp.scale = Rat(source.width, modelShape[2])

\* A square source that is neither the model's width nor its height.
C15_Witness ==
  /\ pc = "letterboxed"
  /\ source.width = source.height
  /\ source.width \notin {modelShape[1], modelShape[2]}
  /\ modelShape[1] # modelShape[2]
  /\ processed.transformParams.scale # FromInt(1)

(* ------------------------------- C16 ---------------------------------- *)
\* C16: in either live-video page a drawn keypoint marker sits exactly at
\* coord * scale - offset of a visible keypoint of the frame's detection,
\* also when that position is negative or beyond the source size: no
\* variant clamps it.
C16_NoClamping ==
  pc = "live" =>
    LET m == Max(source.width, source.height)
        scale == Rat(m, LiveModelShape[2])
        dx == (m - source.width) \div 2
        dy == (m - source.height) \div 2
    IN  \A i \in DOMAIN canvas.ops :
          IsArc(canvas.ops[i]) =>
            \E t \in LiveOutputs, k \in 1..NumKeypoints :
              LET kp == getBestPrediction(t).keypoints[k]
              IN  /\ keypointVisible(kp[3])
                  /\ canvas.ops[i][2] = Unmapped(kp[1], scale, dx)
                  /\ canvas.ops[i][3] = Unmapped(kp[2], scale, dy)

C16_IndexOnly == variant = "index" => C16_NoClamping

\* A marker of src/index.ts drawn above the top edge of the source.
C16_IndexDrawsOutside ==
  /\ pc = "live"
  /\ variant = "index"
  /\ \E i \in DOMAIN canvas.ops :
       IsArc(canvas.ops[i]) /\ RatLT(canvas.ops[i][3], Zero)

(* ------------------------------- C17 ---------------------------------- *)
\* C17: for an output that lacks the [1, NumChannels, NumAnchors] layout
\* (wrong channel count, wrong anchor count, no anchors) the selector fails
\* with an error and returns no detection.
C17_FailFast ==
  (pc # "raw" /\ ~WellFormed(predictions)) => pc = "failed"

\* What comes back instead: a detection with another number of keypoints
\* or with undefined fields.
C17_MalformedDetection ==
  /\ pc = "boxed"
  /\ ~WellFormed(predictions)
  /\ \/ Len(bestPrediction.keypoints) # NumKeypoints
     \/ \E k \in DOMAIN bestPrediction.keypoints :
          bestPrediction.keypoints[k][3] = Undefined

(* ------------------------------- C18 ---------------------------------- *)
\* An animation frame whose pipeline run throws (fromPixels on a video
\* without current data).
ThrowingFrame == (FrameIndex \/ FrameCancel) /\ readyState < 2

\* C18: when the pipeline run of a frame throws, that frame draws nothing
\* and the next frame is requested all the same: the failure does not end
\* the loop.
C18_FailedFrameReschedules ==
  [][ThrowingFrame =>
       (DrawOps(canvas') = <<>> /\ rafCounter' = rafCounter + 1)]_vars

\* The part that holds: a frame that throws draws nothing.
C18_FailedFrameDrawsNothing ==
  [][ThrowingFrame => DrawOps(canvas') = <<>>]_vars

(* ------------------------------- C19 ---------------------------------- *)
\* C19: when processImageWithLetterboxing returns, every intermediate
\* tensor (fromPixels, toFloat, div, pad, resizeBilinear) has been released
\* and only the returned batched tensor is live.
C19_OnlyBatchedLive ==
  pc = "letterboxed" => numTensors = 1

\* The tensors still live besides the returned one.
C19_LeakedIntermediates ==
  /\ pc = "letterboxed"
  /\ numTensors = 1 + Cardinality({"fromPixels", "toFloat"})
  /\ {LetterboxAllocs[i] : i \in DOMAIN LetterboxAllocs}
       \ ({LetterboxDisposed[i] : i \in DOMAIN LetterboxDisposed}
            \cup {"expandDims"})
       = {"fromPixels", "toFloat"}

(* -------------------------- preprocessing alone ------------------------ *)
\* x.pad([[top, bottom], [left, right], [0, 0]]) on a [height, width,
\* channels] shape
padShape(shape, top, bottom, left, right) ==
  <<top + shape[1] + bottom, left + shape[2] + right, shape[3]>>

\* x.resizeBilinear([newHeight, newWidth]) on a [height, width, channels]
\* shape
resizeBilinearShape(shape, size) == <<size[1], size[2], shape[3]>>

\* x.expandDims(0)
expandDimsShape(shape) == <<1>> \o shape

\* The letterboxing of the three pages that pad before they resize: maxDim,
\* padWidth, padHeight, dx, dy and the padded shape are the same in all.
paddedShape(src) ==
  LET maxDim == Max(src.width, src.height)
      padWidth == maxDim - src.width
      padHeight == maxDim - src.height
      dx == paddingBefore(padWidth)
      dy == paddingBefore(padHeight)
  IN  padShape(<<src.height, src.width, 3>>,
               dy, paddingAfter(padHeight, dy), dx, paddingAfter(padWidth, dx))

\* batched of processFrame (vite.config.ts:116-131):
\* padded.resizeBilinear([modelWidth, modelHeight]).expandDims(0)
batchedOfProcessFrame(src, shape) ==
  LET modelHeight == shape[1]
      modelWidth == shape[2]
  IN  expandDimsShape(
        resizeBilinearShape(paddedShape(src), <<modelWidth, modelHeight>>))

\* batched of processImage (03-letterbox-input-processing.ts:91-111):
\* padded.resizeBilinear([640, 640]).expandDims(0)
batchedOfLetterboxPage(src, shape) ==
  expandDimsShape(resizeBilinearShape(paddedShape(src), <<640, 640>>))

PreprocessInit ==
  /\ pc = "image"
  /\ variant \in {"index", "cancel", "letterbox"}
  /\ source \in SourceDims
  /\ modelShape \in ModelShapes
  /\ processed = <<>>
  /\ predictions = <<>>
  /\ bestPrediction = <<>>
  /\ scaledPrediction = <<>>
  /\ canvas = BlankCanvas
  /\ LoopIdle

preprocessRest == <<source, modelShape, predictions, bestPrediction,
                    scaledPrediction, canvas, liveVars>>

\* processImageWithLetterboxing of src/index.ts
PreprocessIndex ==
  /\ pc = "image"
  /\ variant = "index"
  /\ processed' = processImageWithLetterboxing(source, modelShape)
  /\ pc' = "preprocessed"
  /\ UNCHANGED preprocessRest

\* the preprocessing of processFrame, cancelAnimationFrame page
PreprocessCancel ==
  /\ pc = "image"
  /\ variant = "cancel"
  /\ processed' = [processedImage |-> batchedOfProcessFrame(source, modelShape)]
  /\ pc' = "preprocessed"
  /\ UNCHANGED preprocessRest

\* the preprocessing of processImage, tidy-based letterbox page
PreprocessLetterbox ==
  /\ pc = "image"
  /\ variant = "letterbox"
  /\ processed' =
       [processedImage |-> batchedOfLetterboxPage(source, modelShape)]
  /\ pc' = "preprocessed"
  /\ UNCHANGED preprocessRest

PreprocessNext == PreprocessIndex \/ PreprocessCancel \/ PreprocessLetterbox

PreprocessSpec == PreprocessInit /\ [][PreprocessNext]_vars

(* ------------------------------- C20 ---------------------------------- *)
\* C20: in every variant that letterboxes before resizing, the preprocessed
\* tensor has the shape [1, modelHeight, modelWidth, channels], whatever
\* the source and model dimensions.
C20_BatchedShape ==
  pc = "preprocessed" =>
    processed.processedImage = <<1, modelShape[1], modelShape[2], 3>>

C20_IndexOnly == variant = "index" => C20_BatchedShape

\* src/index.ts on a non-square model input and a non-square source.
C20_IndexNonSquare ==
  /\ pc = "preprocessed"
  /\ variant = "index"
  /\ modelShape[1] # modelShape[2]
  /\ source.width # source.height
  /\ processed.processedImage = <<1, modelShape[1], modelShape[2], 3>>

(* ------------------------------- C21 ---------------------------------- *)
\* C21: scalePrediction returns a new detection and leaves its arguments
\* as they were: after the call the input prediction (box, score,
\* keypoints, every triplet) is still what the selector returned and the
\* transform parameters are still what the letterbox step returned.
C21_InputUnchanged ==
  Scaled =>
    /\ bestPrediction = getBestPrediction(predictions)
    /\ processed = processImageWithLetterboxing(source, modelShape)
    /\ scaledPrediction
         = scalePrediction(getBestPrediction(predictions),
                           processImageWithLetterboxing(source, modelShape)
                             .transformParams)

\* The call changed every coordinate, so a write into the input would show.
C21_Witness ==
  /\ pc = "scaled"
  /\ \A i \in 1..4 : scaledPrediction.box[i] # bestPrediction.box[i]
  /\ \A k \in DOMAIN bestPrediction.keypoints :
       /\ scaledPrediction.keypoints[k][1] # bestPrediction.keypoints[k][1]
       /\ scaledPrediction.keypoints[k][2] # bestPrediction.keypoints[k][2]

(* ------------------------------- C22 ---------------------------------- *)
\* The documentation's scenario: a 400x300 source, a 640x640 model input
\* and a best detection whose centre-format box is [320, 320, 64, 96].
Scenario400x300 ==
  /\ source = [width |-> 400, height |-> 300]
  /\ modelShape = <<640, 640>>
ScenarioBox ==
  /\ Scenario400x300
  /\ <<BestChannel(0), BestChannel(1), BestChannel(2), BestChannel(3)>>
       = <<FromInt(320), FromInt(320), FromInt(64), FromInt(96)>>

\* C22 as stated: in the scenario the unmapped corner-format box starts at
\* (x1, y1) = (200, 150).
C22_StartsAt200_150 ==
  (Scaled /\ ScenarioBox) =>
    /\ scaledPrediction.box[1] = FromInt(200)
    /\ scaledPrediction.box[2] = FromInt(150)

\* C22 (amended): in the scenario the model-space corners are
\* [288, 272, 352, 368] and the unmapped box is [180, 120, 220, 180]: it
\* starts at (180, 120); (200, 150) is its centre.
C22_StartsAt180_120 ==
  (Scaled /\ ScenarioBox) =>
    /\ bestPrediction.box
         = <<FromInt(288), FromInt(272), FromInt(352), FromInt(368)>>
    /\ scaledPrediction.box
         = <<FromInt(180), FromInt(120), FromInt(220), FromInt(180)>>
    /\ RatAdd(scaledPrediction.box[1], scaledPrediction.box[3])
         = FromInt(2 * 200)
    /\ RatAdd(scaledPrediction.box[2], scaledPrediction.box[4])
         = FromInt(2 * 150)

\* The scenario has been run up to the unmapped detection.
C22_Witness ==
  /\ pc = "scaled"
  /\ ScenarioBox
  /\ scaledPrediction.box[1] = FromInt(180)

(* ------------------------------- C23 ---------------------------------- *)
\* C23: for a 400x300 source and a 640x640 model input the letterbox step
\* yields a 400x400 square, left = right = 0 (xOffset 0), top = bottom = 50
\* (yOffset 50) and scale = 400/640 = 0.625.
C23_Scenario ==
  (Letterboxed /\ Scenario400x300) =>
    /\ processed.letterboxedShape = <<400, 400, 3>>
    /\ processed.padding
         = [top |-> 50, bottom |-> 50, left |-> 0, right |-> 0]
    /\ processed.transformParams.xOffset = 0
    /\ processed.transformParams.yOffset = 50
    /\ processed.transformParams.scale = Rat(400, 640)
    /\ processed.transformParams.scale = Rat(625, 1000)

\* The scenario's source has been letterboxed.
C23_Witness ==
  /\ pc = "letterboxed"
  /\ Scenario400x300
  /\ processed.transformParams.originalWidth = 400
  /\ processed.transformParams.originalHeight = 300

(* ------------------------------- C24 ---------------------------------- *)
\* C24: for a drawn detection renderPrediction sets the canvas size, clears
\* it, draws the source as background, strokes the box at (x1, y1) with
\* width x2 - x1 and height y2 - y1, and only then draws the markers, in
\* keypoint order; nothing is drawn before the background but the clear.
C24_DrawOrder ==
  (Rendered /\ ~belowThreshold(scaledPrediction.score)) =>
    LET ops == canvas.ops
        box == scaledPrediction.box
        w == source.width
        h == source.height
        visible == SelectSeq(scaledPrediction.keypoints, AboveThreshold)
    IN  /\ Len(ops) = 5 + Len(visible)
        /\ ops[1] = <<"width", w>>
        /\ ops[2] = <<"height", h>>
        /\ ops[3] = <<"clearRect", w, h>>
        /\ ops[4] = <<"drawImage", w, h>>
        /\ ops[5] = <<"strokeRect", box[1], box[2],
                      RatSub(box[3], box[1]), RatSub(box[4], box[2])>>
        /\ \A i \in 1..Len(visible) :
             ops[5 + i] = <<"arc", visible[i][1], visible[i][2]>>
        /\ canvas.width = w
        /\ canvas.height = h

\* A drawn detection with two markers at different places.
C24_Witness ==
  /\ Rendered
  /\ Len(canvas.ops) >= 7
  /\ IsArc(canvas.ops[6])
  /\ IsArc(canvas.ops[7])
  /\ canvas.ops[6] # canvas.ops[7]

(* ------------------------------- C25 ---------------------------------- *)
\* C25: the explicit-dispose getBestPrediction releases every tensor it
\* creates: the call leaves the number of live tensors as it found it.
C25_SelectorCleansUp ==
  [][SelectBest => numTensors' = numTensors]_vars

\* The tensors still live after the call: the four per-anchor slices passed
\* to concat, the concat result and the keypoint slice.
C25_LeakedBySelector ==
  /\ pc = "selected"
  /\ {SelectAllocs[i] : i \in DOMAIN SelectAllocs}
       \ {SelectDisposed[i] : i \in DOMAIN SelectDisposed}
       = {"sliceX1", "sliceY1", "sliceX2", "sliceY2", "concat",
          "sliceKeypoints"}
  /\ numTensors = (Len(LetterboxAllocs) - Len(LetterboxDisposed)) + 1
                    + (Len(SelectAllocs) - Len(SelectDisposed))

(* ------------------------------- C26 ---------------------------------- *)
\* No click handler is suspended in await startVideo.
HandlersFinished == gumPending = {} /\ waiters = <<>>

\* C26: on src/index.ts, whatever the interleaving of toggle clicks, once
\* all handlers have finished running is true exactly when the video has
\* a camera stream attached, and the label is "Stop" exactly when running
\* is true.
C26_ToggleConsistent ==
  (pc = "live" /\ variant = "index" /\ HandlersFinished) =>
    /\ running <=> srcObject # 0
    /\ label = "Stop" <=> running

\* Two start handlers both completed: a stream is attached, a second one
\* is still live, and running is false again.
C26_ReentrantMismatch ==
  /\ pc = "live"
  /\ variant = "index"
  /\ HandlersFinished
  /\ Cardinality(liveStreams) = 2
  /\ srcObject # 0
  /\ ~running

(* ------------------------------- C27 ---------------------------------- *)
\* C27: on the cancelAnimationFrame page, whenever a frame callback is
\* pending the stored requestAnimationFrameId is the id of a pending
\* callback, after any number of processed frames.
C27_StoredIdIsPending ==
  (pc = "live" /\ variant = "cancel" /\ rafQueue # {}) =>
    requestAnimationFrameId \in rafQueue

\* One start click, no other: after the first animation frame the stored
\* id is that of a callback which has already run.
C27_StaleAfterOneFrame ==
  /\ pc = "live"
  /\ variant = "cancel"
  /\ clicks = 1
  /\ frames = 2
  /\ rafQueue = {2}
  /\ requestAnimationFrameId = 1

(* ------------------------------- C28 ---------------------------------- *)
\* The browser runs a pending animation-frame callback of src/index.ts:
\* the step of FrameIndex seen through the frame counter.
AnimationFrameRuns ==
  /\ variant = "index"
  /\ rafQueue # {}
  /\ frames < MaxFrames
  /\ frames' = frames + 1

\* On src/index.ts the frame counter moves in the steps of FrameIndex and
\* in no other step.
AnimationFrameRunsIsFrameIndex ==
  [][(variant = "index" /\ frames' # frames) <=> FrameIndex]_vars

\* The live page under a browser that runs every requested animation-frame
\* callback (requestAnimationFrame, index.ts:391).
LiveFairSpec == LiveSpec /\ WF_frames(AnimationFrameRuns)

\* C28: on src/index.ts a frame whose pipeline run does not throw requests
\* the next frame whatever the detection is, also when the render gate
\* skipped the drawing; so a frame that did not throw is eventually
\* followed by the run of another frame (up to MaxFrames frames).
C28_SchedulingIgnoresDetection ==
  /\ [][(FrameIndex /\ readyState = 2) =>
          (rafCounter' = rafCounter + 1 /\ rafCounter' \in rafQueue')]_vars
  /\ \A n \in 1..(MaxFrames - 1) :
       (variant = "index" /\ frames = n /\ frameAllocs > 0) ~> (frames > n)

\* A frame ran without throwing, its detection was below the threshold so
\* nothing was drawn, and the next frame is pending.
C28_Witness ==
  /\ pc = "live"
  /\ variant = "index"
  /\ frames >= 1
  /\ frameAllocs > 0
  /\ canvas.ops = <<>>
  /\ rafCounter \in rafQueue

(* ------------------------------- C29 ---------------------------------- *)
\* C29: for every source size, xOffset and yOffset of the letterbox
\* transform are non-negative integers and at least one of them is 0; the
\* longer axis gets no padding on either side, and a square source gets
\* none on any side.
C29_OffsetsOfShortAxisOnly ==
  processed # <<>> =>
    LET tp == processed.transformParams
        pad == processed.padding
    IN  /\ tp.xOffset \in Nat
        /\ tp.yOffset \in Nat
        /\ tp.xOffset = 0 \/ tp.yOffset = 0
        /\ source.width >= source.height =>
              (tp.xOffset = 0 /\ pad.left = 0 /\ pad.right = 0)
        /\ source.height >= source.width =>
              (tp.yOffset = 0 /\ pad.top = 0 /\ pad.bottom = 0)

\* A portrait source at least two pixels taller than wide has been
\* letterboxed: padding on the left, none above or below.
C29_Witness ==
  /\ processed # <<>>
  /\ source.height >= source.width + 2
  /\ processed.transformParams.xOffset >= 1
  /\ processed.transformParams.yOffset = 0
  /\ processed.padding.top + processed.padding.bottom = 0

====
